---- MODULE Spec2Model ----
(***************************************************************************)
(* compose2podman: the spec parsers and the two target generators          *)
(* (pkg/kube and pkg/quadlet) over the compose data model of               *)
(* internal/types.                                                         *)
(*                                                                         *)
(* A Go string is a sequence of one-character strings: "a:/b" is           *)
(* <<"a", ":", "/", "b">>.  Go indices are 0-based; the helpers below take *)
(* and return Go indices and translate to TLA+'s 1-based sequences.        *)
(***************************************************************************)
EXTENDS Integers, Sequences, FiniteSets, TLC

VARIABLES
    call,       \* parsers: the pending call [fn, arg]
    ret,        \* parsers: <<>> before the call returns, <<result>> after
    ret2,       \* parsers: <<>> or <<result of the follow-up call>>
    compose,    \* the Document handed to the generators (read-only)
    podName,    \* kube Generator: the pod name NewGenerator stored
    kpc,        \* kube Generate: "idle" | "containers" | "done"
    ktodo,      \* kube Generate: services the range loop has not visited
    sb,         \* kube Generate: the strings.Builder, a sequence of lines
    usedVolumes,\* kube Generate: map volume name -> volumeInfo
    kret,       \* kube Generate: <<>> or <<[yaml, err]>> of the last call
    kcalls,     \* kube Generate: number of Generate calls started
    qpc,        \* quadlet Generate: "idle" | "running" | "done"
    qnets,      \* quadlet Generate: networks the range loop has not visited
    qvols,      \* quadlet Generate: volumes the range loop has not visited
    qsvcs,      \* quadlet Generate: services the range loop has not visited
    dirs,       \* the file system: the directories that exist
    files,      \* the file system: map file name -> content (a sequence of lines)
    writes,     \* the file system: the os.WriteFile calls made, in order
    qret        \* quadlet Generate: <<>> or <<err>> of the call

parserVars == <<call, ret, ret2>>
kubeVars == <<compose, podName, kpc, ktodo, sb, usedVolumes, kret, kcalls>>
quadletVars == <<qpc, qnets, qvols, qsvcs, dirs, files, writes, qret>>
vars == <<call, ret, ret2, compose, podName, kpc, ktodo, sb, usedVolumes, kret, kcalls,
          qpc, qnets, qvols, qsvcs, dirs, files, writes, qret>>

-----------------------------------------------------------------------------
(* Strings *)

\* all strings over alphabet A of length at most n
Strs(A, n) == UNION {[1..k -> A] : k \in 0..n}

\* n copies of the character c
Fill(c, n) == [i \in 1..n |-> c]

UpperRunes == <<"A", "B", "C", "D", "E", "F", "G", "H", "I", "J", "K", "L", "M",
                "N", "O", "P", "Q", "R", "S", "T", "U", "V", "W", "X", "Y", "Z">>
LowerRunes == <<"a", "b", "c", "d", "e", "f", "g", "h", "i", "j", "k", "l", "m",
                "n", "o", "p", "q", "r", "s", "t", "u", "v", "w", "x", "y", "z">>
Digits == {"0", "1", "2", "3", "4", "5", "6", "7", "8", "9"}

\* s[lo:hi] with Go indices
Slice(s, lo, hi) == SubSeq(s, lo + 1, hi)

\* s[lo:]
SliceFrom(s, lo) == SubSeq(s, lo + 1, Len(s))

RECURSIVE IndexFrom(_, _, _)
IndexFrom(s, c, i) ==
    IF i > Len(s) THEN -1
    ELSE IF s[i] = c THEN i - 1
    ELSE IndexFrom(s, c, i + 1)

\* strings.Index(s, c) for a one-character c: Go index of the first c, or -1
Index(s, c) == IndexFrom(s, c, 1)

\* strings.Contains(s, c) for a one-character c
Contains(s, c) == Index(s, c) # -1

\* strings.HasPrefix(s, p)
HasPrefix(s, p) == Len(s) >= Len(p) /\ SubSeq(s, 1, Len(p)) = p

RECURSIVE Split(_, _)
\* strings.Split(s, c) for a one-character separator c
Split(s, c) ==
    LET i == Index(s, c)
    IN  IF i = -1 THEN <<s>>
        ELSE <<Slice(s, 0, i)>> \o Split(SliceFrom(s, i + 1), c)

RECURSIVE Join(_, _)
\* strings.Join(parts, c)
Join(parts, c) ==
    IF Len(parts) = 0 THEN <<>>
    ELSE IF Len(parts) = 1 THEN parts[1]
    ELSE parts[1] \o <<c>> \o Join(Tail(parts), c)

\* strings.ReplaceAll(s, old, new) for one-character old and new
ReplaceAll(s, old, new) == [i \in 1..Len(s) |-> IF s[i] = old THEN new ELSE s[i]]

LowerRune(c) ==
    IF \E k \in 1..Len(UpperRunes) : UpperRunes[k] = c
    THEN LowerRunes[CHOOSE k \in 1..Len(UpperRunes) : UpperRunes[k] = c]
    ELSE c

\* Bytes above 0x7F are written as two hexadecimal digits.  The model knows
\* the lead byte C3 of a two-byte sequence, the lead byte EF of a three-byte
\* sequence and the continuation bytes 89, A9, BD and BF.
LeadTwo == "C3"
LeadThree == "EF"
Continuation == {"89", "A9", "BD", "BF"}
IsASCII(c) == c \notin {LeadTwo, LeadThree} \cup Continuation

\* U+FFFD, what a range over a string yields for a byte that starts no
\* valid encoding
RuneError == <<"EF", "BF", "BD">>

\* the number of bytes of the valid encoding s starts with, 1 for a byte
\* that starts none (utf8.DecodeRuneInString)
RuneWidth(s) ==
    IF IsASCII(s[1]) THEN 1
    ELSE IF s[1] = LeadTwo /\ Len(s) >= 2 /\ s[2] \in Continuation THEN 2
    ELSE IF s[1] = LeadThree /\ Len(s) >= 3 /\ s[2] \in Continuation /\ s[3] \in Continuation
    THEN 3
    ELSE 1

\* unicode.ToLower on one encoded rune: U+00C9 (C3 89) becomes U+00E9 (C3 A9)
LowerEncoded(r) ==
    IF Len(r) = 1 THEN <<LowerRune(r[1])>>
    ELSE IF r = <<"C3", "89">> THEN <<"C3", "A9">>
    ELSE r

RECURSIVE MapLower(_)
\* strings.Map(unicode.ToLower, s): every rune lower-cased, every byte that
\* starts no valid encoding replaced by U+FFFD
MapLower(s) ==
    IF Len(s) = 0 THEN <<>>
    ELSE LET w == RuneWidth(s)
         IN  IF w = 1 /\ ~IsASCII(s[1])
             THEN RuneError \o MapLower(Tail(s))
             ELSE LowerEncoded(SubSeq(s, 1, w)) \o MapLower(SubSeq(s, w + 1, Len(s)))

\* strings.ToLower(s)
ToLower(s) ==
    IF \A i \in 1..Len(s) : IsASCII(s[i])
    THEN [i \in 1..Len(s) |-> LowerRune(s[i])]
    ELSE MapLower(s)

RECURSIVE TrimLeft(_, _)
\* strings.TrimLeft(s, c) for a one-character cutset
TrimLeft(s, c) ==
    IF Len(s) > 0 /\ s[1] = c THEN TrimLeft(Tail(s), c) ELSE s

RECURSIVE TrimRight(_, _)
\* strings.TrimRight(s, c) for a one-character cutset
TrimRight(s, c) ==
    IF Len(s) > 0 /\ s[Len(s)] = c THEN TrimRight(SubSeq(s, 1, Len(s) - 1), c) ELSE s

\* strings.Trim(s, c)
Trim(s, c) == TrimRight(TrimLeft(s, c), c)

-----------------------------------------------------------------------------
(* filepath.Clean on a Unix build: '/' is the only separator *)

RECURSIVE CleanElems(_, _, _, _)
\* The loop of Clean over the '/'-separated elements: out is the stack of
\* elements kept so far, dotdot the number of leading ".." elements that
\* cannot be backtracked over.
CleanElems(elems, out, dotdot, rooted) ==
    IF Len(elems) = 0 THEN out
    ELSE LET e == elems[1]
             rest == Tail(elems)
         IN  IF e = <<>> \/ e = <<".">>
             THEN CleanElems(rest, out, dotdot, rooted)
             ELSE IF e = <<".", ".">>
             THEN IF Len(out) > dotdot
                  THEN CleanElems(rest, SubSeq(out, 1, Len(out) - 1), dotdot, rooted)
                  ELSE IF ~rooted
                  THEN CleanElems(rest, Append(out, e), Len(out) + 1, rooted)
                  ELSE CleanElems(rest, out, dotdot, rooted)
             ELSE CleanElems(rest, Append(out, e), dotdot, rooted)

\* filepath.Clean(path)
Clean(path) ==
    IF Len(path) = 0 THEN <<".">>
    ELSE LET rooted == path[1] = "/"
             out == CleanElems(Split(path, "/"), <<>>, 0, rooted)
         IN  IF rooted THEN <<"/">> \o Join(out, "/")
             ELSE IF Len(out) = 0 THEN <<".">>
             ELSE Join(out, "/")

-----------------------------------------------------------------------------
(* pkg/kube: the spec parsers *)

\* parsePort with the three-segment case forgotten
parsePort_NoAddress(port) ==
    LET parts == Split(port, ":")
    IN  IF Len(parts) = 2
        THEN [containerPort |-> parts[2], hostPort |-> parts[1]]
        ELSE [containerPort |-> port, hostPort |-> <<>>]

\* parsePort(port): [containerPort, hostPort]
parsePort(port) ==
    LET parts == Split(port, ":")
    IN  IF Len(parts) = 3
        THEN [containerPort |-> parts[3], hostPort |-> parts[1] \o <<":">> \o parts[2]]
        ELSE IF Len(parts) = 2
        THEN [containerPort |-> parts[2], hostPort |-> parts[1]]
        ELSE [containerPort |-> port, hostPort |-> <<>>]

\* parseUser(user): [uid, gid]
parseUser(user) ==
    LET parts == Split(user, ":")
    IN  IF Len(parts) = 2
        THEN [uid |-> parts[1], gid |-> parts[2]]
        ELSE [uid |-> user, gid |-> <<>>]

\* isHostPath without the rule for separators inside the path
isHostPath_PrefixOnly(path) ==
    IF HasPrefix(path, <<"/">>) THEN TRUE
    ELSE IF HasPrefix(path, <<".", "/">>) \/ HasPrefix(path, <<".", ".", "/">>) THEN TRUE
    ELSE IF Len(path) >= 2 /\ path[2] = ":" THEN TRUE
    ELSE FALSE

\* isHostPath(path)
isHostPath(path) ==
    IF HasPrefix(path, <<"/">>) THEN TRUE
    ELSE IF HasPrefix(path, <<".", "/">>) \/ HasPrefix(path, <<".", ".", "/">>) THEN TRUE
    ELSE IF Len(path) >= 2 /\ path[2] = ":" THEN TRUE
    ELSE IF Contains(path, "/") \/ Contains(path, "\\") THEN TRUE
    ELSE FALSE

\* the length limit of a volume name in pathToVolumeName
NameLimit == 63

\* the literals of pathToVolumeName and parseVolume
VolPrefix == <<"v", "o", "l", "-">>
VolumeLiteral == <<"v", "o", "l", "u", "m", "e">>
UnnamedVol == <<"u", "n", "n", "a", "m", "e", "d", "-", "v", "o", "l">>

\* pathToVolumeName: the replacements and the lower-casing
ReplaceSeparators(cleaned) ==
    LET v1 == ReplaceAll(cleaned, ":", "-")
        v2 == ReplaceAll(v1, "/", "-")
        v3 == ReplaceAll(v2, "\\", "-")
        v4 == ReplaceAll(v3, ".", "-")
        v5 == ReplaceAll(v4, "_", "-")
    IN  ToLower(v5)

\* pathToVolumeName: the prefix before a leading digit or dash
PrefixIfNeeded(volumeName) ==
    IF Len(volumeName) > 0 /\ (volumeName[1] = "-" \/ volumeName[1] \in Digits)
    THEN VolPrefix \o volumeName
    ELSE volumeName

\* pathToVolumeName: the length limit
LimitLength(volumeName) ==
    IF Len(volumeName) > NameLimit
    THEN TrimRight(Slice(volumeName, 0, NameLimit), "-")
    ELSE volumeName

\* pathToVolumeName: the fallback for an empty name
OrFallback(volumeName) ==
    IF volumeName = <<>> THEN VolumeLiteral ELSE volumeName

\* pathToVolumeName on the raw path, trimming only the leading dashes
pathToVolumeName_Unnormalised(path) ==
    OrFallback(LimitLength(PrefixIfNeeded(TrimLeft(ReplaceSeparators(path), "-"))))

\* pathToVolumeName without the length limit
pathToVolumeName_NoLimit(path) ==
    OrFallback(PrefixIfNeeded(Trim(ReplaceSeparators(Clean(path)), "-")))

\* pathToVolumeName(path)
pathToVolumeName(path) ==
    LET cleaned == Clean(path)
        replaced == ReplaceSeparators(cleaned)
        trimmed == Trim(replaced, "-")
    IN  OrFallback(LimitLength(PrefixIfNeeded(trimmed)))

\* the anonymous-volume return of parseVolume
AnonymousVolume(vol) ==
    [mountPath |-> vol, volumeName |-> UnnamedVol,
     hostPath |-> <<>>, isPath |-> FALSE, anonymous |-> TRUE, source |-> <<>>]

\* the tail of parseVolume, once source and mountPath are isolated
ClassifyVolume(source, mountPath) ==
    IF isHostPath(source)
    THEN [mountPath |-> mountPath, volumeName |-> pathToVolumeName(source),
          hostPath |-> source, isPath |-> TRUE, anonymous |-> FALSE, source |-> source]
    ELSE [mountPath |-> mountPath, volumeName |-> source,
          hostPath |-> source, isPath |-> FALSE, anonymous |-> FALSE, source |-> source]

\* parseVolume without the drive-letter branch
parseVolume_PlainSplit(vol) ==
    LET parts == Split(vol, ":")
    IN  IF Len(parts) >= 2
        THEN ClassifyVolume(parts[1], parts[2])
        ELSE AnonymousVolume(vol)

\* parseVolume(vol): [mountPath, volumeName, hostPath, isPath]; the fields
\* anonymous and source record which return statement was taken and the
\* local variable source.
parseVolume(vol) ==
    IF Len(vol) >= 3 /\ vol[2] = ":" /\ (vol[3] = "/" \/ vol[3] = "\\")
    THEN LET idx == Index(SliceFrom(vol, 3), ":")
         IN  IF idx # -1
             THEN ClassifyVolume(Slice(vol, 0, 3 + idx), SliceFrom(vol, 3 + idx + 1))
             ELSE AnonymousVolume(vol)
    ELSE LET parts == Split(vol, ":")
         IN  IF Len(parts) >= 2
             THEN ClassifyVolume(parts[1], parts[2])
             ELSE AnonymousVolume(vol)

-----------------------------------------------------------------------------
(* pkg/kube: the lines generateContainer emits for one port and one volume *)

\* one line written to a builder: the format string and its arguments
Line0(fmt) == [fmt |-> fmt, args |-> <<>>]
Line1(fmt, a) == [fmt |-> fmt, args |-> <<a>>]
Line2(fmt, a, b) == [fmt |-> fmt, args |-> <<a, b>>]

\* the body of the Ports loop of generateContainer
PortLines(port) ==
    LET p == parsePort(port)
    IN  <<Line1("    - containerPort: %s", p.containerPort)>>
        \o (IF p.hostPort # <<>> THEN <<Line1("      hostPort: %s", p.hostPort)>> ELSE <<>>)

-----------------------------------------------------------------------------
(* internal/types: the compose data model and its accessors *)

\* a Go map: a function from keys to values; the empty map
EmptyMap == <<>>
Put(m, k, v) == [x \in (DOMAIN m) \cup {k} |-> IF x = k THEN v ELSE m[x]]

\* the enumerations of a finite set, as a range loop over a map may visit it
Orders(S) == {f \in [1..Cardinality(S) -> S] : \A i, j \in DOMAIN f : f[i] = f[j] => i = j}

\* interface{} values: nil, a string, a non-string scalar, []interface{},
\* map[string]interface{} and map[interface{}]interface{}
NilV == [t |-> "nil", v |-> <<>>]
StrV(s) == [t |-> "string", v |-> s]
IntV(n) == [t |-> "int", v |-> <<ToString(n)>>]
ListV(items) == [t |-> "list", v |-> items]
MapV(m) == [t |-> "map", v |-> m]
IMapV(m) == [t |-> "imap", v |-> m]

\* findEquals(s): Go index of the first '=', or -1
findEquals(s) == Index(s, "=")

\* Go index of the last '=', or -1
LastEquals(s) ==
    LET at == {i \in 1..Len(s) : s[i] = "="}
    IN  IF at = {} THEN -1 ELSE (CHOOSE i \in at : \A j \in at : j <= i) - 1

RECURSIVE EnvFromList_LastEquals(_, _)
\* the []interface{} case splitting each entry at its last '='
EnvFromList_LastEquals(items, env) ==
    IF Len(items) = 0 THEN env
    ELSE LET item == items[1]
             idx == LastEquals(item.v)
         IN  IF item.t = "string" /\ idx > 0
             THEN EnvFromList_LastEquals(Tail(items),
                      Put(env, Slice(item.v, 0, idx), SliceFrom(item.v, idx + 1)))
             ELSE EnvFromList_LastEquals(Tail(items), env)

RECURSIVE EnvFromList(_, _)
\* EnvironmentMap, the []interface{} case
EnvFromList(items, env) ==
    IF Len(items) = 0 THEN env
    ELSE LET item == items[1]
             idx == findEquals(item.v)
         IN  IF item.t = "string" /\ idx > 0
             THEN EnvFromList(Tail(items),
                              Put(env, Slice(item.v, 0, idx), SliceFrom(item.v, idx + 1)))
             ELSE EnvFromList(Tail(items), env)

\* Service.EnvironmentMap()
EnvironmentMap(s) ==
    LET e == s.Environment
    IN  IF e.t = "map"
        THEN LET keys == {k \in DOMAIN e.v : e.v[k].t = "string"}
             IN  [k \in keys |-> e.v[k].v]
        ELSE IF e.t = "imap"
        THEN LET keys == {k \in DOMAIN e.v : k.t = "string" /\ e.v[k].t = "string"}
             IN  [k \in {x.v : x \in keys} |-> e.v[StrV(k)].v]
        ELSE IF e.t = "list"
        THEN EnvFromList(e.v, EmptyMap)
        ELSE EmptyMap

\* the string elements of a []interface{}, in order
StringItems(items) ==
    LET strs == SelectSeq(items, LAMBDA item : item.t = "string")
    IN  [i \in 1..Len(strs) |-> strs[i].v]

\* CommandList splitting a single string at its spaces
CommandList_Fields(s) ==
    IF s.Command.t = "string" THEN Split(s.Command.v, " ")
    ELSE IF s.Command.t = "list" THEN StringItems(s.Command.v)
    ELSE <<>>

\* Service.CommandList()
CommandList(s) ==
    IF s.Command.t = "string" THEN <<s.Command.v>>
    ELSE IF s.Command.t = "list" THEN StringItems(s.Command.v)
    ELSE <<>>

\* Service.EntrypointList()
EntrypointList(s) ==
    IF s.Entrypoint.t = "string" THEN <<s.Entrypoint.v>>
    ELSE IF s.Entrypoint.t = "list" THEN StringItems(s.Entrypoint.v)
    ELSE <<>>

\* the lists a range over the keys of a map may build
KeyLists(v) ==
    IF v.t = "list" THEN {StringItems(v.v)}
    ELSE IF v.t = "map" THEN Orders(DOMAIN v.v)
    ELSE IF v.t = "imap"
    THEN LET names == {k.v : k \in {x \in DOMAIN v.v : x.t = "string"}}
         IN  Orders(names)
    ELSE {<<>>}

\* Service.NetworksList(): the lists it may return
NetworksList(s) == KeyLists(s.Networks)

\* Service.DependsOnList(): the lists it may return
DependsOnList(s) == KeyLists(s.DependsOn)

-----------------------------------------------------------------------------
(* pkg/kube: Generator *)

\* the nil error
NoError == [msg |-> "", arg |-> <<>>]

\* an error built from the message alone, losing what it should wrap
Errorf_MessageOnly(msg, arg) == [msg |-> msg, arg |-> [op |-> "", path |-> <<>>]]

\* fmt.Errorf(msg, arg)
Errorf(msg, arg) == [msg |-> msg, arg |-> arg]

\* the lines of a block "header:" followed by one "- item" line per element
ListLines(header, items) ==
    IF Len(items) > 0
    THEN <<Line0(header)>> \o [i \in 1..Len(items) |-> Line1("    - %s", items[i])]
    ELSE <<>>

RECURSIVE EnvLines(_, _)
\* the two lines of each environment variable, in the order the map is ranged
EnvLines(env, order) ==
    IF Len(order) = 0 THEN <<>>
    ELSE <<Line1("    - name: %s", order[1]),
           Line1("      value: \"%s\"", env[order[1]])>> \o EnvLines(env, Tail(order))

RECURSIVE AllPortLines(_)
AllPortLines(ports) ==
    IF Len(ports) = 0 THEN <<>> ELSE PortLines(ports[1]) \o AllPortLines(Tail(ports))

\* the volumeInfo stored for a parsed mount
VolumeInfoOf(v) == [name |-> v.volumeName, hostPath |-> v.hostPath, isPath |-> v.isPath]

RECURSIVE MountVolumes_LastWins(_, _, _)
\* a Volume mounts loop that stores the volumeInfo of every mount
MountVolumes_LastWins(vols, lines, used) ==
    IF Len(vols) = 0 THEN [lines |-> lines, usedVolumes |-> used]
    ELSE LET v == parseVolume(vols[1])
             out == lines \o <<Line1("    - name: %s", v.volumeName),
                                Line1("      mountPath: %s", v.mountPath)>>
         IN  MountVolumes_LastWins(Tail(vols), out, Put(used, v.volumeName, VolumeInfoOf(v)))

RECURSIVE MountVolumes(_, _, _)
\* the Volume mounts loop: [lines, usedVolumes] after the mounts vols
MountVolumes(vols, lines, used) ==
    IF Len(vols) = 0 THEN [lines |-> lines, usedVolumes |-> used]
    ELSE LET v == parseVolume(vols[1])
             out == lines \o <<Line1("    - name: %s", v.volumeName),
                                Line1("      mountPath: %s", v.mountPath)>>
         IN  IF v.volumeName \in DOMAIN used
             THEN MountVolumes(Tail(vols), out, used)
             ELSE MountVolumes(Tail(vols), out, Put(used, v.volumeName, VolumeInfoOf(v)))

\* the securityContext block
SecurityLines(service) ==
    IF service.User # <<>> \/ service.Privileged
    THEN <<Line0("    securityContext:")>>
         \o (IF service.User # <<>>
             THEN LET u == parseUser(service.User)
                  IN  (IF u.uid # <<>> THEN <<Line1("      runAsUser: %s", u.uid)>> ELSE <<>>)
                      \o (IF u.gid # <<>> THEN <<Line1("      runAsGroup: %s", u.gid)>> ELSE <<>>)
             ELSE <<>>)
         \o (IF service.Privileged THEN <<Line0("      privileged: true")>> ELSE <<>>)
    ELSE <<>>

\* Generator.generateContainer(sb, name, service, usedVolumes), with the order
\* envOrder in which the environment map is ranged: [sb, usedVolumes, err]
generateContainer(builder, name, service, used, envOrder) ==
    LET containerName == IF service.ContainerName # <<>> THEN service.ContainerName ELSE name
        sb1 == Append(builder, Line1("  - name: %s", containerName))
    IN  IF service.Image = <<>>
        THEN [sb |-> sb1, usedVolumes |-> used,
              err |-> Errorf("service %s: image is required (build not supported)", name)]
        ELSE LET sb2 == Append(sb1, Line1("    image: %s", service.Image))
                 sb3 == sb2 \o ListLines("    command:", CommandList(service))
                 sb4 == sb3 \o ListLines("    args:", EntrypointList(service))
                 env == EnvironmentMap(service)
                 sb5 == sb4 \o (IF Len(envOrder) > 0
                                THEN <<Line0("    env:")>> \o EnvLines(env, envOrder)
                                ELSE <<>>)
                 sb6 == sb5 \o (IF Len(service.Ports) > 0
                                THEN <<Line0("    ports:")>> \o AllPortLines(service.Ports)
                                ELSE <<>>)
                 m == IF Len(service.Volumes) > 0
                      THEN MountVolumes(service.Volumes,
                                        Append(sb6, Line0("    volumeMounts:")), used)
                      ELSE [lines |-> sb6, usedVolumes |-> used]
                 sb8 == m.lines \o (IF service.WorkingDir # <<>>
                                    THEN <<Line1("    workingDir: %s", service.WorkingDir)>>
                                    ELSE <<>>)
             IN  [sb |-> sb8 \o SecurityLines(service), usedVolumes |-> m.usedVolumes,
                  err |-> NoError]

\* the lines Generate writes before the containers, for the pod name pod
HeaderLines(pod) ==
    <<Line0("apiVersion: v1"), Line0("kind: Pod"), Line0("metadata:"),
      Line1("  name: %s", pod), Line0("  labels:"),
      Line0("    app: compose2podman"), Line0("spec:"),
      Line0("  containers:")>>

RECURSIVE VolumeSection(_, _)
\* the entries of the volumes section, in the order the table is ranged
VolumeSection(used, order) ==
    IF Len(order) = 0 THEN <<>>
    ELSE LET volInfo == used[order[1]]
         IN  <<Line1("  - name: %s", volInfo.name)>>
             \o (IF volInfo.isPath
                 THEN <<Line0("    hostPath:"), Line1("      path: %s", volInfo.hostPath),
                        Line0("      type: DirectoryOrCreate")>>
                 ELSE <<Line0("    persistentVolumeClaim:"),
                        Line1("      claimName: %s", volInfo.name)>>)
             \o VolumeSection(used, Tail(order))

\* a Generate returning what the builder holds when generateContainer fails
FailedResult_Partial(builder, err) == [yaml |-> builder, err |-> err]

\* what Generate returns when generateContainer fails
FailedResult(builder, err) == [yaml |-> <<>>, err |-> err]

RECURSIVE RunContainers(_, _, _, _)
\* the range over the services not yet visited, in every order the map may be
\* ranged: the [sb, usedVolumes, err] it may end with
RunContainers(doc, todo, builder, used) ==
    IF todo = {} THEN {[sb |-> builder, usedVolumes |-> used, err |-> NoError]}
    ELSE UNION {UNION {LET r == generateContainer(builder, name, doc.Services[name], used,
                                                  envOrder)
                       IN  IF r.err.msg # "" THEN {r}
                           ELSE RunContainers(doc, todo \ {name}, r.sb, r.usedVolumes) :
                        envOrder \in Orders(DOMAIN EnvironmentMap(doc.Services[name]))} :
                name \in todo}

\* Generator.Generate() of a Generator just made for doc and pod: the
\* [yaml, err] it may return
Generate(doc, pod) ==
    UNION {IF r.err.msg # "" THEN {FailedResult(r.sb, r.err)}
           ELSE {[yaml |-> r.sb
                           \o (IF Cardinality(DOMAIN r.usedVolumes) > 0
                               THEN <<Line0("  volumes:")>> \o VolumeSection(r.usedVolumes, order)
                               ELSE <<>>)
                           \o <<Line0("  restartPolicy: Always")>>,
                  err |-> NoError] : order \in Orders(DOMAIN r.usedVolumes)} :
            r \in RunContainers(doc, DOMAIN doc.Services, HeaderLines(pod), EmptyMap)}

-----------------------------------------------------------------------------
(* pkg/quadlet: Generator *)

ContainerExt == <<".", "c", "o", "n", "t", "a", "i", "n", "e", "r">>
VolumeExt == <<".", "v", "o", "l", "u", "m", "e">>
NetworkExt == <<".", "n", "e", "t", "w", "o", "r", "k">>
ServiceExt == <<".", "s", "e", "r", "v", "i", "c", "e">>

RestartNo == <<"n", "o">>
RestartAlways == <<"a", "l", "w", "a", "y", "s">>
RestartOnFailure == <<"o", "n", "-", "f", "a", "i", "l", "u", "r", "e">>
RestartUnlessStopped ==
    <<"u", "n", "l", "e", "s", "s", "-", "s", "t", "o", "p", "p", "e", "d">>
DriverLocal == <<"l", "o", "c", "a", "l">>

\* filepath.Join(dir, base)
JoinPath(dir, base) ==
    IF dir = <<>> /\ base = <<>> THEN <<>>
    ELSE IF dir = <<>> THEN Clean(base)
    ELSE IF base = <<>> THEN Clean(dir)
    ELSE Clean(Join(<<dir, base>>, "/"))

\* one line per element of a sequence: fmt applied to each element
EachLine(fmt, items) == [i \in 1..Len(items) |-> Line1(fmt, items[i])]

\* one line per entry of a map, in the order the map is ranged
PairLines(fmt, m, order) == [i \in 1..Len(order) |-> Line2(fmt, order[i], m[order[i]])]

\* a restart policy switch handing the compose token through
RestartPolicy_PassThrough(restart) == restart

\* the restart policy switch of generateContainer
RestartPolicy(restart) ==
    IF restart = RestartNo THEN RestartNo
    ELSE IF restart = RestartAlways THEN RestartAlways
    ELSE IF restart = RestartOnFailure THEN RestartOnFailure
    ELSE IF restart = RestartUnlessStopped THEN RestartAlways
    ELSE RestartAlways

\* dependency rendering that declares the ordering but not the requirement
DependencyLines_AfterOnly(deps) ==
    LET after == [i \in 1..Len(deps) |-> deps[i] \o ServiceExt]
    IN  IF Len(deps) > 0 THEN <<Line1("After=%s", Join(after, " "))>> ELSE <<>>

\* the "Handle dependencies" block of generateContainer
DependencyLines(deps) ==
    LET after == [i \in 1..Len(deps) |-> deps[i] \o ServiceExt]
    IN  IF Len(deps) > 0
        THEN <<Line1("After=%s", Join(after, " ")), Line1("Requires=%s", Join(after, " "))>>
        ELSE <<>>

\* quadlet generateContainer(name, service) up to the file write: the content
\* of the unit, given the dependency and network lists the accessors returned
\* and the orders in which the environment and label maps are ranged
ContainerUnit(name, service, deps, networks, envOrder, labelOrder) ==
    LET containerName == IF service.ContainerName # <<>> THEN service.ContainerName ELSE name
        cmd == CommandList(service)
    IN  <<Line0("[Unit]"), Line1("Description=%s container", name)>>
        \o DependencyLines(deps)
        \o <<Line0(""), Line0("[Container]")>>
        \o (IF service.Image # <<>> THEN <<Line1("Image=%s", service.Image)>> ELSE <<>>)
        \o <<Line1("ContainerName=%s", containerName)>>
        \o PairLines("Environment=%s=%s", EnvironmentMap(service), envOrder)
        \o EachLine("PublishPort=%s", service.Ports)
        \o EachLine("Volume=%s", service.Volumes)
        \o EachLine("Network=%s.network", networks)
        \o (IF service.WorkingDir # <<>>
            THEN <<Line1("WorkingDir=%s", service.WorkingDir)>> ELSE <<>>)
        \o (IF service.User # <<>> THEN <<Line1("User=%s", service.User)>> ELSE <<>>)
        \o (IF Len(cmd) > 0 THEN <<Line1("Exec=%s", Join(cmd, " "))>> ELSE <<>>)
        \o (IF service.Hostname # <<>>
            THEN <<Line1("HostName=%s", service.Hostname)>> ELSE <<>>)
        \o (IF service.Privileged THEN <<Line0("SecurityLabelDisable=true")>> ELSE <<>>)
        \o EachLine("AddCapability=%s", service.CapAdd)
        \o EachLine("DropCapability=%s", service.CapDrop)
        \o PairLines("Label=%s=%s", service.Labels, labelOrder)
        \o <<Line0(""), Line0("[Service]"),
             Line1("Restart=%s", RestartPolicy(service.Restart)),
             Line0("TimeoutStartSec=900"),
             Line0(""), Line0("[Install]"), Line0("WantedBy=default.target")>>

\* quadlet generateVolume(name, volume) up to the file write
VolumeUnit(name, volume, labelOrder) ==
    <<Line0("[Unit]"), Line1("Description=%s volume", name), Line0(""), Line0("[Volume]")>>
    \o (IF volume.Driver # <<>> /\ volume.Driver # DriverLocal
        THEN <<Line1("Driver=%s", volume.Driver)>> ELSE <<>>)
    \o PairLines("Label=%s=%s", volume.Labels, labelOrder)
    \o <<Line0(""), Line0("[Install]"), Line0("WantedBy=default.target")>>

\* quadlet generateNetwork(name, network) up to the file write
NetworkUnit(name, network, labelOrder) ==
    <<Line0("[Unit]"), Line1("Description=%s network", name), Line0(""), Line0("[Network]")>>
    \o (IF network.Driver # <<>> THEN <<Line1("Driver=%s", network.Driver)>> ELSE <<>>)
    \o PairLines("Label=%s=%s", network.Labels, labelOrder)
    \o <<Line0(""), Line0("[Install]"), Line0("WantedBy=default.target")>>

\* the outcomes of os.WriteFile(filename, content): success; the open fails
\* and the file is untouched; the write fails after kept lines reached the
\* file; the close fails after all of them did
Outcomes(content) ==
    {[kind |-> "ok", kept |-> Len(content)], [kind |-> "open", kept |-> 0],
     [kind |-> "close", kept |-> Len(content)]}
    \cup {[kind |-> "write", kept |-> k] : k \in 0..(Len(content) - 1)}

\* the *PathError of a failed file system call
PathError(op, path) == [op |-> op, path |-> path]

\* os.WriteFile(filename, content) with the given outcome: [files, err]
WriteFile(fs, filename, content, outcome) ==
    IF outcome.kind = "ok" THEN [files |-> Put(fs, filename, content), err |-> NoError]
    ELSE IF outcome.kind = "open"
    THEN [files |-> fs, err |-> PathError("open", filename)]
    ELSE [files |-> Put(fs, filename, SubSeq(content, 1, outcome.kept)),
          err |-> PathError(outcome.kind, filename)]

\* the record of one os.WriteFile call
WriteCall(filename, content) == [name |-> filename, content |-> content]

-----------------------------------------------------------------------------
(* Inputs of the parsers *)

MaxPortLen == 5
PortAlphabet == {"8", "0", ":"}
PortInputs == Strs(PortAlphabet, MaxPortLen)

MaxSrcLen == 3
MaxDriveTail == 1
MaxRawLen == 4
SrcAlphabet == {"a", "/", ".", "\\"}
RawAlphabet == {"C", ":", "/", "a"}
PlainSources == Strs(SrcAlphabet, MaxSrcLen)
DriveSources ==
    {<<d, ":", s>> \o t : d \in {"C", "a"}, s \in {"/", "\\"}, t \in Strs(SrcAlphabet, MaxDriveTail)}
Sources == PlainSources \cup DriveSources
Targets == {<<"/">>, <<"/", "t">>, <<"t">>}
Options == {<<"r", "o">>, <<"z">>}

\* a call of parseVolume on source:target or source:target:options
VolumeCall(form, src, tgt, opt) ==
    [fn |-> "parseVolume", form |-> form, src |-> src, tgt |-> tgt, opt |-> opt,
     arg |-> IF form = "st" THEN src \o <<":">> \o tgt
             ELSE src \o <<":">> \o tgt \o <<":">> \o opt]

\* a call of fn on an argument with no known structure
RawCall(fn, arg) ==
    [fn |-> fn, form |-> "raw", src |-> <<>>, tgt |-> <<>>, opt |-> <<>>, arg |-> arg]

VolumeCalls ==
    {VolumeCall("st", s, t, <<>>) : s \in Sources, t \in Targets}
    \cup {VolumeCall("sto", x[1], x[2], x[3]) : x \in Sources \X Targets \X Options}
    \cup {RawCall("parseVolume", v) : v \in Strs(RawAlphabet, MaxRawLen)}

MaxPathLen == 3
MaxSuffix == 2
LongSlack == 3
MaxSlashes == 2
\* the characters of the paths, each as its UTF-8 bytes; the last two are
\* U+00E9 and U+00C9
PathAlphabet ==
    {<<"/">>, <<".">>, <<"a">>, <<"B">>, <<"1">>, <<"_">>, <<"-">>, <<":">>, <<"\\">>,
     <<"C3", "A9">>, <<"C3", "89">>}
SuffixAlphabet == {<<"a">>, <<"_">>, <<"/">>, <<".">>, <<"C3", "A9">>}
LongPrefixes == {<<>>, <<"1">>, <<"/">>, <<".", "/">>, <<"B">>}

RECURSIVE Concat(_)
\* the bytes of a sequence of characters
Concat(chars) == IF Len(chars) = 0 THEN <<>> ELSE chars[1] \o Concat(Tail(chars))

ShortPaths == {Concat(p) : p \in Strs(PathAlphabet, MaxPathLen)}
LongPaths ==
    {x[1] \o Fill("a", x[2]) \o Concat(x[3]) :
        x \in LongPrefixes \X ((NameLimit - LongSlack)..NameLimit) \X Strs(SuffixAlphabet, MaxSuffix)}
PathInputs == ShortPaths \cup LongPaths

ParserCalls ==
    {RawCall("parsePort", p) : p \in PortInputs}
    \cup {RawCall("parseUser", p) : p \in PortInputs}
    \cup VolumeCalls
    \cup {RawCall("pathToVolumeName", p) : p \in PathInputs}

-----------------------------------------------------------------------------
(* The parsers, one call at a time *)

\* the Document and the generator state while only the parsers run
NoDocument == [Services |-> <<>>, Networks |-> <<>>, Volumes |-> <<>>]

KubeIdle ==
    /\ kpc = "idle"
    /\ ktodo = {}
    /\ sb = <<>>
    /\ usedVolumes = <<>>
    /\ kret = <<>>
    /\ kcalls = 0

QuadletIdle ==
    /\ qpc = "idle"
    /\ qnets = {}
    /\ qvols = {}
    /\ qsvcs = {}
    /\ dirs = {}
    /\ files = <<>>
    /\ writes = <<>>
    /\ qret = <<>>

InitParsers ==
    /\ call \in ParserCalls
    /\ ret = <<>>
    /\ ret2 = <<>>
    /\ compose = NoDocument
    /\ podName = <<>>
    /\ KubeIdle
    /\ QuadletIdle

CallParsePort ==
    /\ call.fn = "parsePort"
    /\ ret = <<>>
    /\ ret' = <<parsePort(call.arg)>>
    /\ UNCHANGED <<call, ret2>>
    /\ UNCHANGED kubeVars
    /\ UNCHANGED quadletVars

\* the Ports loop body of generateContainer on the same port
EmitPort ==
    /\ call.fn = "parsePort"
    /\ ret # <<>>
    /\ ret2 = <<>>
    /\ ret2' = <<PortLines(call.arg)>>
    /\ UNCHANGED <<call, ret>>
    /\ UNCHANGED kubeVars
    /\ UNCHANGED quadletVars

CallParseUser ==
    /\ call.fn = "parseUser"
    /\ ret = <<>>
    /\ ret' = <<parseUser(call.arg)>>
    /\ UNCHANGED <<call, ret2>>
    /\ UNCHANGED kubeVars
    /\ UNCHANGED quadletVars

CallParseVolume ==
    /\ call.fn = "parseVolume"
    /\ ret = <<>>
    /\ ret' = <<parseVolume(call.arg)>>
    /\ UNCHANGED <<call, ret2>>
    /\ UNCHANGED kubeVars
    /\ UNCHANGED quadletVars

CallPathToVolumeName ==
    /\ call.fn = "pathToVolumeName"
    /\ ret = <<>>
    /\ ret' = <<pathToVolumeName(call.arg)>>
    /\ UNCHANGED <<call, ret2>>
    /\ UNCHANGED kubeVars
    /\ UNCHANGED quadletVars

\* pathToVolumeName on its own result
CallPathToVolumeNameAgain ==
    /\ call.fn = "pathToVolumeName"
    /\ ret # <<>>
    /\ ret2 = <<>>
    /\ ret2' = <<[kind |-> "again", k |-> 0, name |-> pathToVolumeName(ret[1])]>>
    /\ UNCHANGED <<call, ret>>
    /\ UNCHANGED kubeVars
    /\ UNCHANGED quadletVars

\* pathToVolumeName on the same path with k trailing '/' appended
CallPathToVolumeNameTrailing ==
    /\ call.fn = "pathToVolumeName"
    /\ ret # <<>>
    /\ ret2 = <<>>
    /\ \E k \in 1..MaxSlashes :
        ret2' = <<[kind |-> "trailing", k |-> k,
                   name |-> pathToVolumeName(call.arg \o Fill("/", k))]>>
    /\ UNCHANGED <<call, ret>>
    /\ UNCHANGED kubeVars
    /\ UNCHANGED quadletVars

NextParsers ==
    \/ CallParsePort
    \/ EmitPort
    \/ CallParseUser
    \/ CallParseVolume
    \/ CallPathToVolumeName
    \/ CallPathToVolumeNameAgain
    \/ CallPathToVolumeNameTrailing

SpecParsers == InitParsers /\ [][NextParsers]_vars

-----------------------------------------------------------------------------
(* Documents *)

WEB == <<"w", "e", "b">>
DB == <<"d", "b">>
IMG == <<"i", "m", "g">>
ServiceNames == {WEB, DB}

\* a Service with every field at its zero value but the image
BaseService ==
    [Image |-> IMG, ContainerName |-> <<>>, Restart |-> <<>>, WorkingDir |-> <<>>,
     User |-> <<>>, Hostname |-> <<>>, Privileged |-> FALSE, Ports |-> <<>>,
     Environment |-> NilV, Volumes |-> <<>>, Networks |-> NilV, DependsOn |-> NilV,
     Command |-> NilV, Entrypoint |-> NilV, Labels |-> EmptyMap, CapAdd |-> <<>>,
     CapDrop |-> <<>>]

\* mount specifications: a named volume, host paths whose canonical name is
\* "h", a named volume "h", an anonymous volume, a drive-letter path
NamedMount == <<"d", "b", ":", "/", "t">>
HostMount == <<"/", "h", ":", "/", "t">>
RelativeMount == <<".", "/", "h", ":", "/", "u">>
NamedHMount == <<"h", ":", "/", "t">>
AnonymousMount == <<"t">>
DriveMount == <<"C", ":", "/", "h", ":", "/", "t", ":", "r", "o">>

MountLists ==
    {<<>>, <<NamedMount>>, <<HostMount>>, <<RelativeMount, NamedMount>>,
     <<NamedHMount, HostMount>>, <<AnonymousMount>>, <<DriveMount, HostMount>>}

\* services that set the remaining fields generateContainer reads
RichServices ==
    {[BaseService EXCEPT !.Ports = <<<<"8", ":", "0">>, <<"8">>>>,
                         !.Command = StrV(<<"r", "u", "n">>),
                         !.Environment = ListV(<<StrV(<<"K", "=", "v">>), StrV(<<"L", "=">>)>>)],
     [BaseService EXCEPT !.ContainerName = <<"c">>,
                         !.Entrypoint = ListV(<<StrV(<<"s", "h">>), IntV(1)>>),
                         !.Environment = MapV([k \in {<<"K">>} |-> StrV(<<"v">>)]),
                         !.WorkingDir = <<"/", "w">>,
                         !.User = <<"1", ":", "2">>,
                         !.Privileged = TRUE]}

KubeServices ==
    {[BaseService EXCEPT !.Image = i, !.Volumes = v] : i \in {<<>>, IMG}, v \in MountLists}
    \cup RichServices

\* the Documents: every mapping of at most two service names to services
ServiceMaps(Choices) == UNION {[names -> Choices] : names \in SUBSET ServiceNames}

KubeDocuments ==
    {[Services |-> m, Networks |-> EmptyMap, Volumes |-> EmptyMap] : m \in ServiceMaps(KubeServices)}

NET == <<"n", "e", "t">>
NET2 == <<"b", "a", "c", "k">>
XNAME == <<"x">>
NoLabels == EmptyMap
SomeLabels == [k \in {<<"k">>} |-> <<"v">>]

\* top-level network and volume declarations
QuadletNetworks ==
    {EmptyMap,
     [n \in {NET, NET2} |->
        IF n = NET THEN [Driver |-> <<>>, External |-> FALSE, Labels |-> NoLabels]
        ELSE [Driver |-> <<"b", "r">>, External |-> TRUE, Labels |-> SomeLabels]]}

QuadletVolumes ==
    {EmptyMap,
     [n \in {DB} |-> [Driver |-> DriverLocal, External |-> FALSE, Labels |-> NoLabels]],
     [n \in {DB} |-> [Driver |-> <<"n", "f", "s">>, External |-> TRUE, Labels |-> SomeLabels]]}

RestartTokens ==
    {<<>>, RestartNo, RestartAlways, RestartOnFailure, RestartUnlessStopped, XNAME}

QuadletServices ==
    {[BaseService EXCEPT !.Restart = r] : r \in RestartTokens}
    \cup {[BaseService EXCEPT !.Image = <<>>]}
    \cup {[BaseService EXCEPT !.DependsOn = d] :
            d \in {ListV(<<StrV(DB)>>), ListV(<<StrV(DB), IntV(1), StrV(XNAME)>>),
                   MapV([k \in {DB, XNAME} |-> NilV])}}
    \cup {[BaseService EXCEPT !.Networks = n] :
            n \in {ListV(<<StrV(NET)>>), ListV(<<StrV(XNAME)>>),
                   MapV([k \in {NET, NET2} |-> NilV])}}
    \cup {[BaseService EXCEPT !.ContainerName = <<"c">>,
                              !.Hostname = <<"h">>,
                              !.Ports = <<<<"8", ":", "0">>>>,
                              !.Volumes = <<NamedMount>>,
                              !.Command = ListV(<<StrV(<<"s", "h">>), StrV(<<"-", "c">>)>>),
                              !.Environment = ListV(<<StrV(<<"K", "=", "v">>)>>),
                              !.WorkingDir = <<"/", "w">>,
                              !.User = <<"1", ":", "2">>,
                              !.Privileged = TRUE,
                              !.Labels = SomeLabels,
                              !.CapAdd = <<<<"N", "E", "T">>>>,
                              !.CapDrop = <<<<"A", "L", "L">>>>]}

\* the services a second service of the Document is drawn from
SecondServices ==
    {BaseService, [BaseService EXCEPT !.Image = <<>>], [BaseService EXCEPT !.Restart = XNAME],
     [BaseService EXCEPT !.DependsOn = ListV(<<StrV(WEB)>>)]}

\* the Documents: at most two services, with or without top-level networks
\* and volumes
QuadletDocuments ==
    {[Services |-> x[1], Networks |-> x[2], Volumes |-> x[3]] :
        x \in ({m \in ServiceMaps(QuadletServices) : DB \notin DOMAIN m}
               \cup {m \in ServiceMaps(QuadletServices \cup SecondServices) :
                        DB \in DOMAIN m /\ m[DB] \in SecondServices})
              \X QuadletNetworks \X QuadletVolumes}

-----------------------------------------------------------------------------
(* pkg/kube: Generate, one range step at a time *)

MaxCalls == 2

DefaultPodName == <<"c", "o", "m", "p", "o", "s", "e", "-", "p", "o", "d">>

\* NewGenerator(compose, podName): the pod name stored in the Generator
NewGenerator(name) == IF name = <<>> THEN DefaultPodName ELSE name

ParsersIdle ==
    /\ call = RawCall("none", <<>>)
    /\ ret = <<>>
    /\ ret2 = <<>>

InitKube ==
    /\ ParsersIdle
    /\ compose \in KubeDocuments
    /\ podName \in {NewGenerator(<<>>), NewGenerator(<<"p">>)}
    /\ KubeIdle
    /\ QuadletIdle

\* a Generate whose volume table outlives the call
GenerateBegin_KeepsTable ==
    /\ kpc \in {"idle", "done"}
    /\ kcalls < MaxCalls
    /\ kcalls' = kcalls + 1
    /\ sb' = HeaderLines(podName)
    /\ ktodo' = DOMAIN compose.Services
    /\ kret' = <<>>
    /\ kpc' = "containers"
    /\ UNCHANGED <<compose, podName, usedVolumes>>
    /\ UNCHANGED parserVars
    /\ UNCHANGED quadletVars

\* Generate up to the range over the services
GenerateBegin ==
    /\ kpc \in {"idle", "done"}
    /\ kcalls < MaxCalls
    /\ kcalls' = kcalls + 1
    /\ sb' = HeaderLines(podName)
    /\ usedVolumes' = EmptyMap
    /\ ktodo' = DOMAIN compose.Services
    /\ kret' = <<>>
    /\ kpc' = "containers"
    /\ UNCHANGED <<compose, podName>>
    /\ UNCHANGED parserVars
    /\ UNCHANGED quadletVars

\* one iteration of the range over the services: generateContainer on a
\* service not yet visited, and the return of Generate when it fails
GenerateContainer(name) ==
    /\ kpc = "containers"
    /\ name \in ktodo
    /\ \E envOrder \in Orders(DOMAIN EnvironmentMap(compose.Services[name])) :
        LET r == generateContainer(sb, name, compose.Services[name], usedVolumes, envOrder)
        IN  /\ sb' = r.sb
            /\ usedVolumes' = r.usedVolumes
            /\ IF r.err # NoError
               THEN /\ kret' = <<FailedResult(r.sb, r.err)>>
                    /\ kpc' = "done"
                    /\ ktodo' = ktodo
               ELSE /\ kret' = kret
                    /\ kpc' = kpc
                    /\ ktodo' = ktodo \ {name}
    /\ UNCHANGED <<compose, podName, kcalls>>
    /\ UNCHANGED parserVars
    /\ UNCHANGED quadletVars

\* Generate after the range: the volumes section, the restart policy, return
GenerateEnd ==
    /\ kpc = "containers"
    /\ ktodo = {}
    /\ \E order \in Orders(DOMAIN usedVolumes) :
        LET out == sb \o (IF Cardinality(DOMAIN usedVolumes) > 0
                          THEN <<Line0("  volumes:")>> \o VolumeSection(usedVolumes, order)
                          ELSE <<>>)
                      \o <<Line0("  restartPolicy: Always")>>
        IN  /\ sb' = out
            /\ kret' = <<[yaml |-> out, err |-> NoError]>>
    /\ kpc' = "done"
    /\ UNCHANGED <<compose, podName, ktodo, usedVolumes, kcalls>>
    /\ UNCHANGED parserVars
    /\ UNCHANGED quadletVars

NextKube ==
    \/ GenerateBegin
    \/ \E name \in ServiceNames : GenerateContainer(name)
    \/ GenerateEnd

SpecKube == InitKube /\ [][NextKube]_vars

-----------------------------------------------------------------------------
(* pkg/quadlet: Generate, one range step at a time *)

OutputDir == <<"o", "u", "t">>

InitQuadlet ==
    /\ ParsersIdle
    /\ compose \in QuadletDocuments
    /\ podName = <<>>
    /\ KubeIdle
    /\ QuadletIdle

\* a Generate that returns nil before the range over the services
Returns_BeforeServices(nets, vols, svcs) ==
    IF nets = {} /\ vols = {}
    THEN /\ qpc' = "done"
         /\ qret' = <<NoError>>
    ELSE /\ qpc' = "running"
         /\ qret' = <<>>

\* Generate returns nil once the three ranges have visited everything
Returns(nets, vols, svcs) ==
    IF nets = {} /\ vols = {} /\ svcs = {}
    THEN /\ qpc' = "done"
         /\ qret' = <<NoError>>
    ELSE /\ qpc' = "running"
         /\ qret' = <<>>

\* a Generate that records err and carries on with the range
Fails_Continue(err) ==
    /\ qpc' = "running"
    /\ qret' = <<err>>

\* Generate returns err
Fails(err) ==
    /\ qpc' = "done"
    /\ qret' = <<err>>

\* Generate up to the first range: os.MkdirAll on the output directory
QuadletBegin ==
    /\ qpc = "idle"
    /\ \E outcome \in {"ok", "open"} :
        IF outcome = "ok"
        THEN /\ dirs' = dirs \cup {OutputDir}
             /\ qnets' = DOMAIN compose.Networks
             /\ qvols' = DOMAIN compose.Volumes
             /\ qsvcs' = DOMAIN compose.Services
             /\ Returns(DOMAIN compose.Networks, DOMAIN compose.Volumes,
                        DOMAIN compose.Services)
        ELSE /\ Fails(Errorf("failed to create output directory: %w",
                             PathError("mkdir", OutputDir)))
             /\ UNCHANGED <<dirs, qnets, qvols, qsvcs>>
    /\ UNCHANGED <<files, writes>>
    /\ UNCHANGED kubeVars
    /\ UNCHANGED parserVars

\* one iteration of the range over the networks: generateNetwork
QuadletNetwork(name) ==
    /\ qpc = "running"
    /\ name \in qnets
    /\ \E labelOrder \in Orders(DOMAIN compose.Networks[name].Labels) :
        LET filename == JoinPath(OutputDir, name \o NetworkExt)
            content == NetworkUnit(name, compose.Networks[name], labelOrder)
        IN  \E outcome \in Outcomes(content) :
            LET w == WriteFile(files, filename, content, outcome)
            IN
            /\ files' = w.files
            /\ writes' = Append(writes, WriteCall(filename, content))
            /\ IF outcome.kind # "ok"
               THEN /\ Fails(Errorf("failed to write network file: %w", w.err))
                    /\ qnets' = qnets
               ELSE /\ qnets' = qnets \ {name}
                    /\ Returns(qnets \ {name}, qvols, qsvcs)
    /\ UNCHANGED <<dirs, qvols, qsvcs>>
    /\ UNCHANGED kubeVars
    /\ UNCHANGED parserVars

\* one iteration of the range over the volumes: generateVolume
QuadletVolume(name) ==
    /\ qpc = "running"
    /\ qnets = {}
    /\ name \in qvols
    /\ \E labelOrder \in Orders(DOMAIN compose.Volumes[name].Labels) :
        LET filename == JoinPath(OutputDir, name \o VolumeExt)
            content == VolumeUnit(name, compose.Volumes[name], labelOrder)
        IN  \E outcome \in Outcomes(content) :
            LET w == WriteFile(files, filename, content, outcome)
            IN
            /\ files' = w.files
            /\ writes' = Append(writes, WriteCall(filename, content))
            /\ IF outcome.kind # "ok"
               THEN /\ Fails(Errorf("failed to write volume file: %w", w.err))
                    /\ qvols' = qvols
               ELSE /\ qvols' = qvols \ {name}
                    /\ Returns(qnets, qvols \ {name}, qsvcs)
    /\ UNCHANGED <<dirs, qnets, qsvcs>>
    /\ UNCHANGED kubeVars
    /\ UNCHANGED parserVars

\* one iteration of the range over the services: generateContainer
QuadletContainer(name) ==
    /\ qpc = "running"
    /\ qnets = {}
    /\ qvols = {}
    /\ name \in qsvcs
    /\ LET service == compose.Services[name]
       IN  \E deps \in DependsOnList(service), networks \in NetworksList(service),
              envOrder \in Orders(DOMAIN EnvironmentMap(service)),
              labelOrder \in Orders(DOMAIN service.Labels) :
            LET filename == JoinPath(OutputDir, name \o ContainerExt)
                content == ContainerUnit(name, service, deps, networks, envOrder, labelOrder)
            IN  \E outcome \in Outcomes(content) :
                LET w == WriteFile(files, filename, content, outcome)
                IN
                /\ files' = w.files
                /\ writes' = Append(writes, WriteCall(filename, content))
                /\ IF outcome.kind # "ok"
                   THEN /\ Fails(Errorf("failed to write container file: %w", w.err))
                        /\ qsvcs' = qsvcs
                   ELSE /\ qsvcs' = qsvcs \ {name}
                        /\ Returns(qnets, qvols, qsvcs \ {name})
    /\ UNCHANGED <<dirs, qnets, qvols>>
    /\ UNCHANGED kubeVars
    /\ UNCHANGED parserVars

NextQuadlet ==
    \/ QuadletBegin
    \/ \E name \in {NET, NET2} : QuadletNetwork(name)
    \/ \E name \in {DB} : QuadletVolume(name)
    \/ \E name \in ServiceNames : QuadletContainer(name)

SpecQuadlet == InitQuadlet /\ [][NextQuadlet]_vars

-----------------------------------------------------------------------------
(* internal/types: the accessors, one call at a time *)

MaxPairs == 2
MaxEntryLen == 3
MaxItems == 2

\* environment variable names and values
EnvNames == {<<"K">>, <<"L">>, <<"K", "=">>, <<"=", "K">>, <<"K", "=", "L">>}
EnvValues == {<<>>, <<"v">>, <<"v", "=", "w">>, <<"=">>}

\* the sets of name/value pairs with distinct names, as functions
EnvPairs ==
    UNION {[names -> EnvValues] : names \in {n \in SUBSET EnvNames : Cardinality(n) <= MaxPairs}}

\* the entries of an environment sequence, and the entry next to them
EnvEntries == Strs({"K", "=", "v"}, MaxEntryLen)
EnvNeighbours == {<<>>, <<IntV(1)>>, <<StrV(<<"K", "=", "w">>)>>, <<StrV(<<"v">>)>>}

\* the shapes of a command or entrypoint field
TokenItems == {StrV(<<"a">>), StrV(<<"b", " ", "c">>), StrV(<<>>), IntV(1), NilV}
ScalarShapes == {NilV, IntV(1), StrV(<<>>), StrV(<<"r", "u", "n">>), StrV(<<"a", " ", "b">>)}
ListShapes == {ListV(items) : items \in Strs(TokenItems, MaxItems)}
MapShapes == {MapV([k \in {<<"a">>} |-> StrV(<<"b">>)])}

\* the mapping encodings and the sequence encoding of a set of pairs
MapEncoding(pairs) == MapV([k \in DOMAIN pairs |-> StrV(pairs[k])])
IMapEncoding(pairs) == IMapV([k \in {StrV(n) : n \in DOMAIN pairs} |-> StrV(pairs[k.v])])
ListEncoding(pairs, order) ==
    ListV([i \in 1..Len(order) |-> StrV(order[i] \o <<"=">> \o pairs[order[i]])])

\* a call of an accessor on a service whose field is arg
TypeCall(fn, form, pairs, order, arg) ==
    [fn |-> fn, form |-> form, pairs |-> pairs, order |-> order, arg |-> arg]

PairCalls ==
    UNION {{TypeCall("EnvironmentMap", "pairs", m, o, MapEncoding(m)) : o \in Orders(DOMAIN m)} :
            m \in EnvPairs}
EntryCalls ==
    {TypeCall("EnvironmentMap", "entries", EmptyMap, <<>>, ListV(x[2] \o <<StrV(x[1])>> \o x[3])) :
        x \in EnvEntries \X EnvNeighbours \X EnvNeighbours}
ShapeCalls(Shapes) ==
    {TypeCall(f, "shape", EmptyMap, <<>>, a) : f \in {"CommandList", "EntrypointList"}, a \in Shapes}

InitTypes ==
    /\ \/ call \in PairCalls
       \/ call \in EntryCalls
       \/ call \in ShapeCalls(ScalarShapes)
       \/ call \in ShapeCalls(ListShapes)
       \/ call \in ShapeCalls(MapShapes)
    /\ ret = <<>>
    /\ ret2 = <<>>
    /\ compose = NoDocument
    /\ podName = <<>>
    /\ KubeIdle
    /\ QuadletIdle

\* EnvironmentMap on a service whose environment is the argument
CallEnvironmentMap ==
    /\ call.fn = "EnvironmentMap"
    /\ ret = <<>>
    /\ ret' = <<EnvironmentMap([BaseService EXCEPT !.Environment = call.arg])>>
    /\ UNCHANGED <<call, ret2>>
    /\ UNCHANGED kubeVars
    /\ UNCHANGED quadletVars

\* EnvironmentMap on the sequence encoding of the same pairs
CallEnvironmentMapSequence ==
    /\ call.fn = "EnvironmentMap"
    /\ call.form = "pairs"
    /\ ret # <<>>
    /\ ret2 = <<>>
    /\ ret2' = <<[kind |-> "sequence",
                  env |-> EnvironmentMap([BaseService EXCEPT
                              !.Environment = ListEncoding(call.pairs, call.order)])]>>
    /\ UNCHANGED <<call, ret>>
    /\ UNCHANGED kubeVars
    /\ UNCHANGED quadletVars

\* EnvironmentMap on the map[interface{}]interface{} encoding of the same pairs
CallEnvironmentMapIMap ==
    /\ call.fn = "EnvironmentMap"
    /\ call.form = "pairs"
    /\ ret # <<>>
    /\ ret2 = <<>>
    /\ ret2' = <<[kind |-> "imap",
                  env |-> EnvironmentMap([BaseService EXCEPT
                              !.Environment = IMapEncoding(call.pairs)])]>>
    /\ UNCHANGED <<call, ret>>
    /\ UNCHANGED kubeVars
    /\ UNCHANGED quadletVars

CallCommandList ==
    /\ call.fn = "CommandList"
    /\ ret = <<>>
    /\ ret' = <<CommandList([BaseService EXCEPT !.Command = call.arg])>>
    /\ UNCHANGED <<call, ret2>>
    /\ UNCHANGED kubeVars
    /\ UNCHANGED quadletVars

CallEntrypointList ==
    /\ call.fn = "EntrypointList"
    /\ ret = <<>>
    /\ ret' = <<EntrypointList([BaseService EXCEPT !.Entrypoint = call.arg])>>
    /\ UNCHANGED <<call, ret2>>
    /\ UNCHANGED kubeVars
    /\ UNCHANGED quadletVars

NextTypes ==
    \/ CallEnvironmentMap
    \/ CallEnvironmentMapSequence
    \/ CallEnvironmentMapIMap
    \/ CallCommandList
    \/ CallEntrypointList

SpecTypes == InitTypes /\ [][NextTypes]_vars

-----------------------------------------------------------------------------
(* Properties of the generators *)

\* the services of the Document whose image is empty
ImagelessServices == {n \in DOMAIN compose.Services : compose.Services[n].Image = <<>>}

\* C1: when some service has an empty image, kube Generate returns an error
\* and the empty string, in whatever order the services are visited, and the
\* error names a service whose image is empty.
C1_MissingImageAbortsManifest ==
    (kpc = "done" /\ ImagelessServices # {})
        => /\ kret[1].err.msg = "service %s: image is required (build not supported)"
           /\ kret[1].err.arg \in ImagelessServices
           /\ kret[1].yaml = <<>>

\* Generate failed on the second service it visited, after writing the
\* container block of the first
C1_Witness ==
    /\ kpc = "done"
    /\ kret[1].err # NoError
    /\ \E i \in 1..Len(sb) : sb[i].fmt = "    image: %s"
    /\ kret[1].yaml = <<>>

\* C2: for every Document with a service whose image is empty, quadlet
\* Generate does not return success.
C2_MissingImageFailsUnits ==
    (qpc = "done" /\ ImagelessServices # {}) => qret[1].msg # ""

\* C4: every entry of the volume table made from a named volume has an empty
\* host path; only host-path entries carry one.
C4_NamedVolumeHasNoHostPath ==
    \A n \in DOMAIN usedVolumes :
        ~usedVolumes[n].isPath => usedVolumes[n].hostPath = <<>>

-----------------------------------------------------------------------------
(* Properties of the parsers *)

\* positions (1-based) of the character c in s
Positions(s, c) == {i \in 1..Len(s) : s[i] = c}

Min(S) == CHOOSE x \in S : \A y \in S : x <= y
Max(S) == CHOOSE x \in S : \A y \in S : x >= y

\* the spec starts with a drive-letter pattern: second character ':', then '/' or '\'
DrivePattern(v) == Len(v) >= 3 /\ v[2] = ":" /\ v[3] \in {"/", "\\"}

\* C3: for every spec source:target or source:target:options, drive-letter
\* sources included, parseVolume returns exactly target as the mount path
\* (the options never appear in it).
C3_MountPathIsTarget ==
    (call.fn = "parseVolume" /\ call.form # "raw" /\ ret # <<>>)
        => ret[1].mountPath = call.tgt

\* the host-path rule as the specification words it
SpecHostPath(s) ==
    \/ (Len(s) >= 1 /\ s[1] = "/")
    \/ (Len(s) >= 2 /\ s[1] = "." /\ s[2] = "/")
    \/ (Len(s) >= 3 /\ s[1] = "." /\ s[2] = "." /\ s[3] = "/")
    \/ DrivePattern(s)
    \/ \E i \in 1..Len(s) : s[i] \in {"/", "\\"}

\* C5: a source isolated by parseVolume is classified as a host path iff it
\* starts with '/', './' or '../', matches a drive-letter pattern, or contains
\* '/' or '\'; every other source is a named volume named by the source itself.
C5_HostPathClassification ==
    (call.fn = "parseVolume" /\ ret # <<>> /\ ~ret[1].anonymous)
        => /\ ret[1].isPath <=> SpecHostPath(ret[1].source)
           /\ ~ret[1].isPath => ret[1].volumeName = ret[1].source

\* a source with a separator inside and no path prefix was classified
C5_Witness ==
    /\ call.fn = "parseVolume"
    /\ ret # <<>>
    /\ ret[1].source = <<"a", "/", "a">>
    /\ ret[1].isPath

\* the anonymous fallback for the spec v
IsFallback(r, v) ==
    /\ r.mountPath = v
    /\ r.volumeName = UnnamedVol
    /\ r.hostPath = <<>>
    /\ ~r.isPath

\* C6: on a drive-letter spec the delimiter is the first colon after position
\* 2 and the source keeps its drive colon; with no such colon, or on another
\* spec without any colon, the result is the anonymous fallback.
C6_DelimiterHandling ==
    (call.fn = "parseVolume" /\ ret # <<>>)
        => LET v == call.arg
               r == ret[1]
               later == {j \in Positions(v, ":") : j - 1 > 2}
           IN  IF DrivePattern(v)
               THEN IF later # {}
                    THEN /\ r.source = SubSeq(v, 1, Min(later) - 1)
                         /\ r.source[2] = ":"
                         /\ r.hostPath = r.source
                         /\ r.mountPath = SubSeq(v, Min(later) + 1, Len(v))
                    ELSE IsFallback(r, v)
               ELSE Positions(v, ":") = {} => IsFallback(r, v)

\* a drive-letter spec was split at its second colon
C6_Witness ==
    /\ call.fn = "parseVolume"
    /\ call.arg = <<"C", ":", "/", "a", ":", "/", "t">>
    /\ ret # <<>>
    /\ ret[1].source = <<"C", ":", "/", "a">>

\* C7: naming is idempotent: for every path p,
\* pathToVolumeName(pathToVolumeName(p)) = pathToVolumeName(p)
C7_NamingIdempotent ==
    (call.fn = "pathToVolumeName" /\ ret2 # <<>> /\ ret2[1].kind = "again")
        => ret2[1].name = ret[1]

\* C8: pathToVolumeName(p) = pathToVolumeName(p with trailing '/' appended)
C8_TrailingSeparatorsIgnored ==
    (call.fn = "pathToVolumeName" /\ ret2 # <<>> /\ ret2[1].kind = "trailing")
        => ret2[1].name = ret[1]

\* a path ending in a kept character was named with two more separators
C8_Witness ==
    /\ call.fn = "pathToVolumeName"
    /\ Len(call.arg) > 0
    /\ call.arg[Len(call.arg)] = "_"
    /\ ret2 # <<>>
    /\ ret2[1].kind = "trailing"
    /\ ret2[1].k = 2
    /\ ret[1] # VolumeLiteral

Separators == {"/", "\\", ":", ".", "_"}
UpperSet == {UpperRunes[k] : k \in 1..Len(UpperRunes)}

\* the characters of the normalised path that naming keeps
Kept(p) == SelectSeq(Clean(p), LAMBDA c : c \notin Separators \cup {"-"})

\* the normalised path with its leading separators and dashes dropped
RECURSIVE DropLeading(_)
DropLeading(p) ==
    IF Len(p) > 0 /\ p[1] \in Separators \cup {"-"} THEN DropLeading(Tail(p)) ELSE p

\* C9: every name is non-empty, at most 63 characters, does not start with a
\* digit or '-', does not end with '-', has no separator or upper-case
\* letter; nothing left after sanitizing gives 'volume', a leading digit gives
\* the prefix 'vol-'.
C9_NameShape ==
    (call.fn = "pathToVolumeName" /\ ret # <<>>)
        => LET n == ret[1]
               first == DropLeading(Clean(call.arg))
           IN  /\ Len(n) >= 1
               /\ Len(n) <= 63
               /\ n[1] \notin Digits \cup {"-"}
               /\ n[Len(n)] # "-"
               /\ \A i \in 1..Len(n) : n[i] \notin Separators \cup UpperSet
               /\ \A i \in 1..(Len(n) - 1) : <<n[i], n[i + 1]>> # <<"C3", "89">>
               /\ Kept(call.arg) = <<>> => n = VolumeLiteral
               /\ (first # <<>> /\ first[1] \in Digits) => HasPrefix(n, VolPrefix)

\* a long path starting with a digit was prefixed and cut at the limit
C9_Witness ==
    /\ call.fn = "pathToVolumeName"
    /\ Len(call.arg) > NameLimit
    /\ call.arg[1] = "1"
    /\ ret # <<>>
    /\ HasPrefix(ret[1], VolPrefix)
    /\ Len(ret[1]) = NameLimit

\* C10: three segments a:b:c give container port c and host port a:b, two
\* segments a:b give container port b and host port a, any other count gives
\* the whole input and no host port; a hostPort line is emitted only for a
\* non-empty host port.
C10_PortDecomposition ==
    (call.fn = "parsePort" /\ ret # <<>>)
        => LET p == call.arg
               r == ret[1]
               colons == Positions(p, ":")
               n == Cardinality(colons) + 1
           IN  /\ n = 3 => /\ r.containerPort = SubSeq(p, Max(colons) + 1, Len(p))
                           /\ r.hostPort = SubSeq(p, 1, Max(colons) - 1)
               /\ n = 2 => /\ r.containerPort = SubSeq(p, Max(colons) + 1, Len(p))
                           /\ r.hostPort = SubSeq(p, 1, Max(colons) - 1)
               /\ n \notin {2, 3} => (r.containerPort = p /\ r.hostPort = <<>>)
               /\ ret2 # <<>> =>
                    /\ ret2[1][1] = Line1("    - containerPort: %s", r.containerPort)
                    /\ IF r.hostPort # <<>>
                       THEN ret2[1] = <<ret2[1][1], Line1("      hostPort: %s", r.hostPort)>>
                       ELSE Len(ret2[1]) = 1

\* an address:host:container port was parsed and its two lines emitted
C10_Witness ==
    /\ call.fn = "parsePort"
    /\ call.arg = <<"8", ":", "0", ":", "8">>
    /\ ret2 # <<>>
    /\ Len(ret2[1]) = 2
    /\ ret2[1][2].args = <<<<"8", ":", "0">>>>

-----------------------------------------------------------------------------
(* Properties of the accessors *)

\* the names of the pairs of the call contain no '='
PlainNames == \A n \in DOMAIN call.pairs : Positions(n, "=") = {}

\* C11 as stated: for every set of pairs with distinct non-empty names, the
\* sequence encoding normalizes to the same map as the mapping encoding.
C11_EncodingIndependent ==
    (call.fn = "EnvironmentMap" /\ call.form = "pairs" /\ ret2 # <<>>
        /\ (\A n \in DOMAIN call.pairs : n # <<>>))
        => ret2[1].env = ret[1]

\* C11, amended: for every set of pairs with distinct non-empty names that
\* contain no '=', both mapping encodings and the sequence encoding normalize
\* to the same map, the map of the pairs themselves.
C11_EncodingIndependentPlainNames ==
    (call.fn = "EnvironmentMap" /\ call.form = "pairs" /\ PlainNames)
        => /\ ret # <<>> => ret[1] = call.pairs
           /\ ret2 # <<>> => ret2[1].env = call.pairs

\* two pairs, one value holding a '=', were normalized from the sequence
\* encoding
C11_Witness ==
    /\ call.fn = "EnvironmentMap"
    /\ call.form = "pairs"
    /\ PlainNames
    /\ Cardinality(DOMAIN call.pairs) = 2
    /\ \E n \in DOMAIN call.pairs : call.pairs[n] = <<"v", "=", "w">>
    /\ ret2 # <<>>
    /\ ret2[1].kind = "sequence"
    /\ Cardinality(DOMAIN ret2[1].env) = 2

\* the positions of the string entries of a sequence that hold a '='
SplitEntries(items) ==
    {i \in 1..Len(items) : items[i].t = "string" /\ Positions(items[i].v, "=") # {}}

\* the text before and after the first '=' of an entry
KeyOf(e) == SubSeq(e, 1, Min(Positions(e, "=")) - 1)
ValueOf(e) == SubSeq(e, Min(Positions(e, "=")) + 1, Len(e))

\* C12: EnvironmentMap on a sequence splits each entry at its first '=':
\* every entry holding a '=' contributes its key and value (the last entry of
\* a key giving the value), and only entries without '=' are dropped.
C12_SplitAtFirstEquals ==
    (call.fn = "EnvironmentMap" /\ call.form = "entries" /\ ret # <<>>)
        => LET items == call.arg.v
               env == ret[1]
           IN  /\ \A i \in SplitEntries(items) :
                    /\ KeyOf(items[i].v) \in DOMAIN env
                    /\ \/ env[KeyOf(items[i].v)] = ValueOf(items[i].v)
                       \/ \E j \in SplitEntries(items) :
                            j > i /\ KeyOf(items[j].v) = KeyOf(items[i].v)
               /\ \A k \in DOMAIN env :
                    \E i \in SplitEntries(items) : KeyOf(items[i].v) = k

\* the positions of the string elements of a sequence
StringPositions(items) == {i \in 1..Len(items) : items[i].t = "string"}

\* tokens is the string elements of items, in their order
KeepsStrings(tokens, items) ==
    /\ Len(tokens) = Cardinality(StringPositions(items))
    /\ \A i \in StringPositions(items) :
        tokens[Cardinality({j \in StringPositions(items) : j <= i})] = items[i].v

\* C13: CommandList and EntrypointList return the single string as one
\* token, the string elements of a sequence in order, and no token for any
\* other shape.
C13_TokenLists ==
    (call.fn \in {"CommandList", "EntrypointList"} /\ ret # <<>>)
        => IF call.arg.t = "string" THEN ret[1] = <<call.arg.v>>
           ELSE IF call.arg.t = "list" THEN KeepsStrings(ret[1], call.arg.v)
           ELSE ret[1] = <<>>

\* a command string holding a space came back as one token
C13_Witness ==
    /\ call.fn = "CommandList"
    /\ call.arg = StrV(<<"a", " ", "b">>)
    /\ ret = <<<<<<"a", " ", "b">>>>>>

-----------------------------------------------------------------------------
(* Properties of the unit files *)

\* the os.WriteFile calls that wrote the container unit of service n
ContainerWrites(n) ==
    {i \in 1..Len(writes) : writes[i].name = JoinPath(OutputDir, n \o ContainerExt)}

\* the positions of the lines of a unit written with the format fmt
LinesOf(content, fmt) == {i \in 1..Len(content) : content[i].fmt = fmt}

\* the restart-policy table of the specification
RestartTable(token) ==
    IF token = RestartNo THEN RestartNo
    ELSE IF token = RestartOnFailure THEN RestartOnFailure
    ELSE RestartAlways

\* C14: every container unit handed to the file system has exactly one
\* Restart= line, holding the table's value for the service's restart
\* token, directly followed by TimeoutStartSec=900.
C14_RestartMapping ==
    \A n \in DOMAIN compose.Services : \A w \in ContainerWrites(n) :
        LET content == writes[w].content
            at == LinesOf(content, "Restart=%s")
        IN  /\ Cardinality(at) = 1
            /\ \A i \in at :
                /\ content[i].args = <<RestartTable(compose.Services[n].Restart)>>
                /\ i < Len(content)
                /\ content[i + 1] = Line0("TimeoutStartSec=900")

\* units were written for a service restarting unless-stopped and for one
\* with a token outside the table
C14_Witness ==
    /\ qpc = "done"
    /\ qret[1].msg = ""
    /\ \E n \in DOMAIN compose.Services :
        compose.Services[n].Restart = RestartUnlessStopped /\ ContainerWrites(n) # {}
    /\ \E n \in DOMAIN compose.Services :
        compose.Services[n].Restart = XNAME /\ ContainerWrites(n) # {}

\* the names of the string elements or keys of a depends_on field
DependencyNames(v) ==
    IF v.t = "list" THEN {v.v[i].v : i \in StringPositions(v.v)}
    ELSE IF v.t = "map" THEN DOMAIN v.v
    ELSE IF v.t = "imap" THEN {k.v : k \in {x \in DOMAIN v.v : x.t = "string"}}
    ELSE {}

\* C15: a container unit of a service with dependencies has exactly one
\* After= and one Requires= line, both listing the same units <dep>.service,
\* one for every dependency; a service without dependencies has neither.
C15_DependencyLines ==
    \A n \in DOMAIN compose.Services : \A w \in ContainerWrites(n) :
        LET content == writes[w].content
            names == DependencyNames(compose.Services[n].DependsOn)
            after == LinesOf(content, "After=%s")
            requires == LinesOf(content, "Requires=%s")
        IN  IF names = {}
            THEN after = {} /\ requires = {}
            ELSE /\ Cardinality(after) = 1
                 /\ Cardinality(requires) = 1
                 /\ \A i \in after, j \in requires :
                    /\ content[i].args = content[j].args
                    /\ LET units == Split(content[i].args[1], " ")
                       IN  {units[k] : k \in 1..Len(units)} = {d \o ServiceExt : d \in names}

\* a unit was written for a service depending on two services
C15_Witness ==
    \E n \in DOMAIN compose.Services :
        /\ Cardinality(DependencyNames(compose.Services[n].DependsOn)) = 2
        /\ \E w \in ContainerWrites(n) : LinesOf(writes[w].content, "Requires=%s") # {}

\* the file names of the declared networks, volumes and services
NetworkFiles == {JoinPath(OutputDir, n \o NetworkExt) : n \in DOMAIN compose.Networks}
VolumeFiles == {JoinPath(OutputDir, n \o VolumeExt) : n \in DOMAIN compose.Volumes}
ContainerFiles == {JoinPath(OutputDir, n \o ContainerExt) : n \in DOMAIN compose.Services}

\* the place of a file in the order networks, volumes, containers
Rank(filename) ==
    IF filename \in NetworkFiles THEN 1 ELSE IF filename \in VolumeFiles THEN 2 ELSE 3

\* the i-th os.WriteFile call left the whole unit in its file
InPlace(i) ==
    /\ writes[i].name \in DOMAIN files
    /\ files[writes[i].name] = writes[i].content

WriteFailures ==
    {"failed to write network file: %w", "failed to write volume file: %w",
     "failed to write container file: %w"}

\* C16: generation is fail-fast: no file is written before the output
\* directory exists and none when creating it fails; files are written
\* networks first, then volumes, then containers; only the last write may have
\* failed, Generate then has returned the error of that write, and the files
\* written before it are whole.
C16_FailFast ==
    /\ writes # <<>> => OutputDir \in dirs
    /\ (qpc = "done" /\ qret[1].msg = "failed to create output directory: %w")
        => (writes = <<>> /\ DOMAIN files = {} /\ OutputDir \notin dirs)
    /\ \A i, j \in 1..Len(writes) : i < j => Rank(writes[i].name) <= Rank(writes[j].name)
    /\ \A i \in 1..(Len(writes) - 1) : InPlace(i)
    /\ (writes # <<>> /\ ~InPlace(Len(writes)))
        => /\ qpc = "done"
           /\ qret[1].msg \in WriteFailures
    /\ (qret # <<>> /\ qret[1].msg \in WriteFailures)
        => /\ qpc = "done"
           /\ writes # <<>>
           /\ qret[1].arg.path = writes[Len(writes)].name
    /\ (qpc = "done" /\ qret[1].msg = "") => \A i \in 1..Len(writes) : InPlace(i)

\* a container write failed part-way after a network and a volume file were
\* written
C16_Witness ==
    /\ qpc = "done"
    /\ qret[1].msg = "failed to write container file: %w"
    /\ Len(writes) >= 3
    /\ writes[1].name \in NetworkFiles
    /\ writes[Len(writes) - 1].name \in VolumeFiles
    /\ writes[Len(writes)].name \in DOMAIN files
    /\ Len(files[writes[Len(writes)].name]) \in 1..(Len(writes[Len(writes)].content) - 1)

\* C17: the error of a failed unit-file write wraps the I/O failure of that
\* write, which carries the file name of the network, volume or service whose
\* file could not be written.
C17_WriteErrorNamesEntity ==
    (qpc = "done" /\ qret[1].msg \in WriteFailures)
        => LET err == qret[1]
               named == IF err.msg = "failed to write network file: %w" THEN NetworkFiles
                        ELSE IF err.msg = "failed to write volume file: %w" THEN VolumeFiles
                        ELSE ContainerFiles
           IN  /\ err.arg.op \in {"open", "write", "close"}
               /\ err.arg.path \in named
               /\ err.arg.path = writes[Len(writes)].name

\* the write of the volume file failed
C17_Witness ==
    /\ qpc = "done"
    /\ qret[1].msg = "failed to write volume file: %w"
    /\ qret[1].arg.path = JoinPath(OutputDir, DB \o VolumeExt)

-----------------------------------------------------------------------------
(* Properties of the manifest *)

\* the manifest of a Generate that has returned without error
Succeeded == kpc = "done" /\ kret[1].err.msg = ""

\* the volume names the volumeMounts of the containers of a manifest refer to
MountNames(yaml) == {yaml[i - 1].args[1] : i \in LinesOf(yaml, "      mountPath: %s")}

\* the positions of the entries of the volumes section of a manifest
VolumeEntries(yaml) ==
    {i \in LinesOf(yaml, "  - name: %s") : \E v \in LinesOf(yaml, "  volumes:") : v < i}

\* the volumes section of the manifest, against the mounts and the table
C18_Section ==
    Succeeded =>
        LET yaml == kret[1].yaml
        IN  /\ Cardinality(LinesOf(yaml, "  volumes:")) = (IF MountNames(yaml) = {} THEN 0 ELSE 1)
            /\ {yaml[i].args[1] : i \in VolumeEntries(yaml)} = MountNames(yaml)
            /\ Cardinality(VolumeEntries(yaml)) = Cardinality(MountNames(yaml))
            /\ \A i \in VolumeEntries(yaml) :
                LET entry == usedVolumes[yaml[i].args[1]]
                IN  IF entry.isPath
                    THEN /\ yaml[i + 1] = Line0("    hostPath:")
                         /\ yaml[i + 2] = Line1("      path: %s", entry.hostPath)
                    ELSE /\ yaml[i + 1] = Line0("    persistentVolumeClaim:")
                         /\ yaml[i + 2] = Line1("      claimName: %s", yaml[i].args[1])

\* within a call an entry of the table never changes, and a new entry is
\* made from the first mount with its name of the service just visited
C18_FirstMount ==
    kcalls' = kcalls =>
        /\ \A n \in DOMAIN usedVolumes :
            n \in DOMAIN usedVolumes' /\ usedVolumes'[n] = usedVolumes[n]
        /\ \A n \in (DOMAIN usedVolumes') \ (DOMAIN usedVolumes) :
            \E name \in ktodo \ ktodo' :
                LET vols == compose.Services[name].Volumes
                IN  \E i \in 1..Len(vols) :
                        /\ parseVolume(vols[i]).volumeName = n
                        /\ \A j \in 1..(i - 1) : parseVolume(vols[j]).volumeName # n
                        /\ usedVolumes'[n].isPath = parseVolume(vols[i]).isPath
                        /\ usedVolumes'[n].hostPath = parseVolume(vols[i]).hostPath
                        /\ usedVolumes'[n].name = n

\* C18: the volumes section has exactly one entry per volume name the
\* containers mount and no other, is absent when nothing is mounted, declares
\* a hostPath for a path entry of the table and a persistentVolumeClaim
\* otherwise, and the table entry of a name is the one its first mount made.
C18_VolumesSection == [](C18_Section) /\ [][C18_FirstMount]_vars

\* a manifest whose containers mount the name "h" twice and that declares it
\* once, next to another volume
C18_Witness ==
    /\ Succeeded
    /\ Cardinality({i \in LinesOf(kret[1].yaml, "    - name: %s") :
                        kret[1].yaml[i].args = <<<<"h">>>>}) >= 2
    /\ Cardinality({i \in VolumeEntries(kret[1].yaml) : kret[1].yaml[i].args = <<<<"h">>>>}) = 1
    /\ Cardinality(DOMAIN usedVolumes) >= 2

\* a call that returned, returned what a Generator just made may return
C19_FreshResult == kpc = "done" => kret[1] \in Generate(compose, podName)

\* every call starts from the header alone and an empty table, and no step
\* changes the Document
C19_FreshStart ==
    /\ kcalls' # kcalls => (sb' = HeaderLines(podName) /\ DOMAIN usedVolumes' = {})
    /\ compose' = compose

\* C19: after any earlier calls on the same Generator, a Generate call starts
\* from an empty volume table and output buffer, leaves the Document
\* unchanged and returns what a call on a fresh Generator for the same
\* Document may return.
C19_IndependentCalls == [](C19_FreshResult) /\ [][C19_FreshStart]_vars

\* a second call on the same Generator returned a manifest with volumes
C19_Witness ==
    /\ kcalls = 2
    /\ Succeeded
    /\ DOMAIN usedVolumes # {}

\* C20: in every manifest, each host-path mount of each container refers to
\* a volumes entry that is a hostPath whose path is the mount's own source.
C20_MountRefersToOwnPath ==
    Succeeded =>
        \A n \in DOMAIN compose.Services :
            LET vols == compose.Services[n].Volumes
            IN  \A i \in 1..Len(vols) :
                    LET v == parseVolume(vols[i])
                    IN  v.isPath =>
                            /\ usedVolumes[v.volumeName].isPath
                            /\ usedVolumes[v.volumeName].hostPath = v.hostPath

\* the entries of the volumes section of a manifest: the name line and the
\* two lines that declare the volume
VolumeEntrySet(yaml) == {<<yaml[i], yaml[i + 1], yaml[i + 2]>> : i \in VolumeEntries(yaml)}

\* the positions of the container blocks of a manifest
BlockStarts(yaml) ==
    {i \in LinesOf(yaml, "  - name: %s") : \A v \in LinesOf(yaml, "  volumes:") : i < v}

\* the position after the last line of the containers of a manifest
BlocksEnd(yaml) ==
    Min(LinesOf(yaml, "  volumes:") \cup LinesOf(yaml, "  restartPolicy: Always"))

\* the container blocks of a manifest, each as the set of its lines
ContainerBlocks(yaml) ==
    {{yaml[k] : k \in {j \in i..(BlocksEnd(yaml) - 1) :
                        \A b \in BlockStarts(yaml) : b <= i \/ b > j}} :
        i \in BlockStarts(yaml)}

\* C21: the manifest does not depend on the order in which the services are
\* visited: a returned manifest has the container blocks and the volume
\* entries (name, classification, host path) of every manifest Generate may
\* return for the Document.
C21_OrderIndependent ==
    Succeeded =>
        \A r \in Generate(compose, podName) :
            /\ r.err.msg = ""
            /\ ContainerBlocks(r.yaml) = ContainerBlocks(kret[1].yaml)
            /\ VolumeEntrySet(r.yaml) = VolumeEntrySet(kret[1].yaml)

-----------------------------------------------------------------------------
(* Properties of the set of unit files *)

\* unit-file generation has returned without error
Generated == qpc = "done" /\ qret[1].msg = ""

\* the networks a container unit refers to
NetworkRefs(content) == {content[i].args[1] : i \in LinesOf(content, "Network=%s.network")}

\* the services a container unit orders itself after or requires
DependencyRefs(content) ==
    LET at == LinesOf(content, "After=%s") \cup LinesOf(content, "Requires=%s")
        units == UNION {{Split(content[i].args[1], " ")[k] :
                            k \in 1..Len(Split(content[i].args[1], " "))} : i \in at}
    IN  {SubSeq(u, 1, Len(u) - Len(ServiceExt)) : u \in units}

\* a file of that name was written whole in this run
Written(filename) == \E i \in 1..Len(writes) : writes[i].name = filename /\ InPlace(i)

\* exactly one file was written per declared network, volume and service
OneFilePerEntity ==
    /\ {writes[i].name : i \in 1..Len(writes)} = NetworkFiles \cup VolumeFiles \cup ContainerFiles
    /\ DOMAIN files = NetworkFiles \cup VolumeFiles \cup ContainerFiles
    /\ \A i, j \in 1..Len(writes) : writes[i].name = writes[j].name => i = j
    /\ Len(writes) = Cardinality(DOMAIN compose.Networks) + Cardinality(DOMAIN compose.Volumes)
                        + Cardinality(DOMAIN compose.Services)

\* C22 as stated: after a successful generation every network and every
\* service a container unit refers to has its file among those written, and
\* exactly one file is written per declared network, volume and service.
C22_ReferencesWritten ==
    Generated =>
        /\ \A n \in DOMAIN compose.Services : \A w \in ContainerWrites(n) :
            /\ \A net \in NetworkRefs(writes[w].content) :
                Written(JoinPath(OutputDir, net \o NetworkExt))
            /\ \A dep \in DependencyRefs(writes[w].content) :
                Written(JoinPath(OutputDir, dep \o ContainerExt))
        /\ OneFilePerEntity

\* C22, amended: after a successful generation every declared network and
\* every declared service a container unit refers to has its file among those
\* written, and exactly one file is written per declared network, volume and
\* service.
C22_DeclaredReferencesWritten ==
    Generated =>
        /\ \A n \in DOMAIN compose.Services : \A w \in ContainerWrites(n) :
            /\ \A net \in NetworkRefs(writes[w].content) \cap DOMAIN compose.Networks :
                Written(JoinPath(OutputDir, net \o NetworkExt))
            /\ \A dep \in DependencyRefs(writes[w].content) \cap DOMAIN compose.Services :
                Written(JoinPath(OutputDir, dep \o ContainerExt))
        /\ OneFilePerEntity

\* units were generated for a service on a declared network and for a
\* service that depends on a declared service, next to a volume
C22_Witness ==
    /\ Generated
    /\ \E n \in DOMAIN compose.Services : \E w \in ContainerWrites(n) :
        NetworkRefs(writes[w].content) \cap DOMAIN compose.Networks # {}
    /\ \E n \in DOMAIN compose.Services : \E w \in ContainerWrites(n) :
        DependencyRefs(writes[w].content) \cap DOMAIN compose.Services # {}
    /\ DOMAIN compose.Volumes # {}
    /\ Len(writes) >= 5

====
